---- MODULE Spec2Model ----
(***************************************************************************)
(* State-machine model of the DingTalk stream core: the deduplication      *)
(* ledger (dedup.ts), the session-webhook routing cache (runtime.ts), the  *)
(* client factory (client.ts) and the stream coordinator with its          *)
(* connection health supervisor (monitor.ts).                              *)
(*                                                                         *)
(* Time.  The source only ever uses differences and comparisons of         *)
(* Date.now() values.  The model keeps every stored timestamp relative to  *)
(* the current instant: Now is the origin, a timestamp taken "now" is 0,   *)
(* and AdvanceTime(d) moves every stored timestamp d milliseconds into the *)
(* past.  A timestamp that is only compared against a fixed horizon        *)
(* saturates at that horizon.                                              *)
(*                                                                         *)
(* Optional values (undefined / null in the source) are sets with at most  *)
(* one element: {} is undefined, {v} is the value v.                       *)
(***************************************************************************)
EXTENDS Integers, Sequences, FiniteSets, TLC

VARIABLES
    seen,                   \* dedup.ts: Map msgId -> timestamp, in insertion order
    lastCall,               \* history: the isDuplicate call just made, if any
    h_sighted,              \* history: per msgId, when isDuplicate last returned false
    h_evicted,              \* history: msgIds whose entry removeOldest dropped since then
    h_dupHits,              \* history: msgIds that had a duplicate hit since then
    webhookByConversation,  \* runtime.ts: Map conversationId -> WebhookEntry, insertion order
    webhookBySender,        \* runtime.ts: Map senderId -> WebhookEntry
    nextUrl,                \* history: the next endpoint url an inbound event carries
    lastResolve,            \* history: the resolution call just made, if any
    clients,                \* every DWClient constructed so far, by object identity
    clientCache,            \* client.ts: clientCache (configCache holds the same keys)
    activeClients,          \* monitor.ts: activeClients
    healthCheckIntervals,   \* monitor.ts: healthCheckIntervals
    cleanupIntervals,       \* monitor.ts: cleanupIntervals
    sup,                    \* one entry per monitorStream call: its promise and
                            \* its health-check closure
    repairs,                \* the softReconnect / hardReconnect calls suspended
                            \* at an await
    inflight,               \* callback invocations awaiting handleDingTalkMessage
    lastDone,               \* output: the callback invocation that has just returned
    h_failed                \* history: msgIds whose handler threw, until the id is
                            \* handled again or its sighting is TTL old

dedupVars   == <<seen, lastCall, h_sighted, h_evicted, h_dupHits>>
webhookVars == <<webhookByConversation, webhookBySender, nextUrl, lastResolve>>
sessionVars == <<clients, clientCache, activeClients, healthCheckIntervals,
                 cleanupIntervals, sup, repairs>>
eventVars   == <<inflight, lastDone, h_failed>>
streamVars  == <<sessionVars, eventVars>>
vars        == <<dedupVars, webhookVars, streamVars>>

\* Date.now(), the origin of the moving time frame.
Now == 0

None == {}
Some(v) == {v}
The(o) == CHOOSE v \in o : TRUE

Min(a, b) == IF a <= b THEN a ELSE b
Max(a, b) == IF a >= b THEN a ELSE b

\* The period of the health check, and the step of the model's clock.
HEALTH_CHECK_INTERVAL == 10000

(***************************************************************************)
(* Deduplication ledger (dedup.ts)                                         *)
(***************************************************************************)
\* The source sets 5 minutes, which is 30 periods of the health check; the
\* model scales the TTL down to TtlIntervals periods.  Every formula is
\* stated against the name DEDUP_TTL_MS.
TtlIntervals == 2
DEDUP_TTL_MS == TtlIntervals * HEALTH_CHECK_INTERVAL
\* The source sets 100; the model scales the capacity down so that the
\* overflow path is reachable.  Every formula is stated against this name.
DEDUP_MAX_ENTRIES == 2

\* The falsy msgId ("" or undefined) and the non-empty msgIds.
EmptyMsgId == 0
MsgIds == 1..(DEDUP_MAX_ENTRIES + 1)
AnyMsgId == MsgIds \cup {EmptyMsgId}

\* seen.has(id) / seen.get(id) / seen.size
SeenIndex(s, id) == {i \in 1..Len(s) : s[i].id = id}
SeenGet(s, id) == {s[i].ts : i \in SeenIndex(s, id)}

\* seen.set(id, ts): an existing key keeps its place in the iteration order.
SeenSet(s, id, ts) ==
    IF SeenIndex(s, id) # {}
    THEN [i \in 1..Len(s) |-> IF s[i].id = id THEN [id |-> id, ts |-> ts] ELSE s[i]]
    ELSE Append(s, [id |-> id, ts |-> ts])

IsExpired(now, ts) == now - ts >= DEDUP_TTL_MS

purgeExpired_Nothing(s, now) == s

purgeExpired(s, now) == SelectSeq(s, LAMBDA e : ~IsExpired(now, e.ts))

\* The scan keeps the first entry whose timestamp is strictly smaller.
OldestIndex(s) ==
    CHOOSE i \in 1..Len(s) :
        /\ \A j \in 1..Len(s) : s[i].ts <= s[j].ts
        /\ \A j \in 1..(i - 1) : s[j].ts > s[i].ts

DropIndex(s, i) == SubSeq(s, 1, i - 1) \o SubSeq(s, i + 1, Len(s))

removeOldest_Skips(s) == s

removeOldest(s) == IF Len(s) = 0 THEN s ELSE DropIndex(s, OldestIndex(s))

IsFresh_Inclusive(s, msgId, now) ==
    \E seenAt \in SeenGet(s, msgId) : now - seenAt <= DEDUP_TTL_MS

\* seenAt !== undefined && now - seenAt < DEDUP_TTL_MS
IsFresh(s, msgId, now) ==
    \E seenAt \in SeenGet(s, msgId) : now - seenAt < DEDUP_TTL_MS

\* The ledger after the two clean-up steps that precede an insertion.
AfterPurge(s, now) == IF Len(s) >= DEDUP_MAX_ENTRIES THEN purgeExpired(s, now) ELSE s
AfterEvict(s) == IF Len(s) >= DEDUP_MAX_ENTRIES THEN removeOldest(s) ELSE s

\* The value isDuplicate(msgId) returns.
isDuplicateResult_Never(s, msgId, now) == FALSE

isDuplicateResult(s, msgId, now) ==
    IF msgId = EmptyMsgId THEN FALSE ELSE IsFresh(s, msgId, now)

isDuplicateSeen_NotRecorded(s, msgId, now) == s

isDuplicateSeen_Refresh(s, msgId, now) ==
    IF msgId = EmptyMsgId THEN s
    ELSE SeenSet(AfterEvict(AfterPurge(s, now)), msgId, now)

\* The ledger isDuplicate(msgId) leaves behind.
isDuplicateSeen(s, msgId, now) ==
    IF msgId = EmptyMsgId \/ IsFresh(s, msgId, now) THEN s
    ELSE SeenSet(AfterEvict(AfterPurge(s, now)), msgId, now)

\* msgIds dropped by the capacity eviction (not by expiry) of this call.
EvictedBy(s, msgId, now) ==
    IF msgId = EmptyMsgId \/ IsFresh(s, msgId, now) THEN {}
    ELSE {AfterPurge(s, now)[i].id : i \in 1..Len(AfterPurge(s, now))}
            \ {AfterEvict(AfterPurge(s, now))[i].id :
                    i \in 1..Len(AfterEvict(AfterPurge(s, now)))}

\* The history bookkeeping of one isDuplicate call.  A sighting is a call
\* that recorded the id: the empty id has none.
SightedAfter(msgId, ret) ==
    IF ret \/ msgId = EmptyMsgId THEN h_sighted
    ELSE [h_sighted EXCEPT ![msgId] = Some(Now)]

EvictedAfter(msgId, ret, evicted) ==
    IF ret THEN h_evicted ELSE (h_evicted \cup evicted) \ {msgId}

RecordCall(msgId, ret, evicted) ==
    /\ lastCall' = Some([msgId |-> msgId, ret |-> ret,
                         prior |-> h_sighted[msgId],
                         priorEvicted |-> msgId \in h_evicted,
                         priorHits |-> msgId \in h_dupHits,
                         sizeBefore |-> Len(seen)])
    /\ h_sighted' = SightedAfter(msgId, ret)
    /\ h_evicted' = EvictedAfter(msgId, ret, evicted)
    /\ h_dupHits' = IF ret THEN h_dupHits \cup {msgId} ELSE h_dupHits \ {msgId}

\* A caller invokes isDuplicate(msgId).
IsDuplicateCall(msgId) ==
    /\ seen' = isDuplicateSeen(seen, msgId, Now)
    /\ RecordCall(msgId, isDuplicateResult(seen, msgId, Now), EvictedBy(seen, msgId, Now))
    /\ UNCHANGED <<webhookVars, streamVars>>

\* Timestamps of the ledger are only compared against the TTL.
ShiftTs(ts, d) == Max(ts - d, Now - DEDUP_TTL_MS)

DedupStep == HEALTH_CHECK_INTERVAL

AdvanceTimeDedup ==
    /\ seen' = [i \in 1..Len(seen) |->
                    [id |-> seen[i].id, ts |-> ShiftTs(seen[i].ts, DedupStep)]]
    /\ h_sighted' = [m \in AnyMsgId |-> {ShiftTs(t, DedupStep) : t \in h_sighted[m]}]
    /\ lastCall' = None
    /\ UNCHANGED <<h_evicted, h_dupHits, webhookVars, streamVars>>

InitDedup ==
    /\ seen = <<>>
    /\ lastCall = None
    /\ h_sighted = [m \in AnyMsgId |-> None]
    /\ h_evicted = {}
    /\ h_dupHits = {}

(***************************************************************************)
(* Session-webhook routing cache (runtime.ts)                              *)
(***************************************************************************)
\* expiresAt ?? Date.now() + 3600_000
DEFAULT_WEBHOOK_TTL == 3600000

\* Number of cacheSessionWebhook calls and of clock steps a run makes.
MaxRecords == 2
MaxWebhookSteps == 2

WebhookStep == DEFAULT_WEBHOOK_TTL \div 2

\* Conversation and sender ids; Absent is the omitted (undefined) argument.
Absent == 0
ConversationIds == {1, 2}
SenderIds == {1, 2}

\* conversationAccountMap: the account that owns a conversation, the one
\* whose events record it; the two conversations belong to two accounts.
ConversationAccount(conversationId) == IF conversationId = 1 THEN "main" ELSE "second"

\* The expiresAt argument: already past, still ahead, or omitted.
ExpiresAtArgs == {Some(Now - WebhookStep), Some(Now + WebhookStep), None}

\* Map.get / Map.set on a Map kept as the sequence of its [key, value] pairs.
MapGet(m, k) == {m[i].value : i \in {j \in 1..Len(m) : m[j].key = k}}

MapSet(m, k, v) ==
    IF \E i \in 1..Len(m) : m[i].key = k
    THEN [i \in 1..Len(m) |-> IF m[i].key = k THEN [key |-> k, value |-> v] ELSE m[i]]
    ELSE Append(m, [key |-> k, value |-> v])

MapValues(m) == [i \in 1..Len(m) |-> m[i].value]

NewEntry(conversationId, url, expiresAt) ==
    [url |-> url,
     conversationId |-> conversationId,
     expiresAt |-> IF expiresAt = None THEN Now + DEFAULT_WEBHOOK_TTL ELSE The(expiresAt),
     updatedAt |-> Now]

\* webhookBySender after cacheSessionWebhook: the entry replaces an older one only.
SenderAfterCache(m, senderId, entry) ==
    IF senderId = Absent THEN m
    ELSE IF MapGet(m, senderId) = None
            \/ \E existing \in MapGet(m, senderId) : entry.updatedAt > existing.updatedAt
         THEN MapSet(m, senderId, entry)
         ELSE m

cacheSessionWebhook(conversationId, url, expiresAt, senderId) ==
    /\ nextUrl <= MaxRecords
    /\ url = nextUrl
    /\ nextUrl' = nextUrl + 1
    /\ webhookByConversation' =
            MapSet(webhookByConversation, conversationId,
                   NewEntry(conversationId, url, expiresAt))
    /\ webhookBySender' =
            SenderAfterCache(webhookBySender, senderId,
                             NewEntry(conversationId, url, expiresAt))
    /\ lastResolve' = None
    /\ UNCHANGED <<dedupVars, streamVars>>

NotExpired_Always(entry, now) == TRUE

\* entry.expiresAt > now
NotExpired(entry, now) == entry.expiresAt > now

\* The loop of getCachedWebhook: the first entry with the greatest updatedAt
\* among the non-expired ones, scanning entries 1..n in insertion order.
RECURSIVE BestUpTo(_, _, _)
BestUpTo(entries, n, now) ==
    IF n = 0 THEN None
    ELSE LET best == BestUpTo(entries, n - 1, now)
             entry == entries[n]
         IN IF NotExpired(entry, now)
                /\ (best = None \/ entry.updatedAt > The(best).updatedAt)
            THEN Some(entry)
            ELSE best

ExactEntry(byConversation, conversationId, now) ==
    IF conversationId = Absent THEN None
    ELSE {e \in MapGet(byConversation, conversationId) : NotExpired(e, now)}

\* The entry whose url getCachedWebhook(conversationId) returns.
getCachedWebhook(byConversation, conversationId, now) ==
    IF ExactEntry(byConversation, conversationId, now) # None
    THEN ExactEntry(byConversation, conversationId, now)
    ELSE BestUpTo(MapValues(byConversation), Len(byConversation), now)

\* The entry getLatestWebhookForSender(senderId) returns.
getLatestWebhookForSender(bySender, senderId, now) ==
    IF senderId = Absent THEN None
    ELSE {e \in MapGet(bySender, senderId) : NotExpired(e, now)}

resolveWebhook_SenderFirst(byConversation, bySender, conversationId, senderId, now) ==
    IF getLatestWebhookForSender(bySender, senderId, now) # None
    THEN getLatestWebhookForSender(bySender, senderId, now)
    ELSE getCachedWebhook(byConversation, conversationId, now)

\* The entry whose url resolveWebhook({conversationId, senderId}) returns.
resolveWebhook(byConversation, bySender, conversationId, senderId, now) ==
    IF ExactEntry(byConversation, conversationId, now) # None
    THEN ExactEntry(byConversation, conversationId, now)
    ELSE IF getLatestWebhookForSender(bySender, senderId, now) # None
         THEN getLatestWebhookForSender(bySender, senderId, now)
         ELSE getCachedWebhook(byConversation, Absent, now)

UrlOf(entry) == {e.url : e \in entry}

RecordResolve_Purging(fn, conversationId, senderId, entry) ==
    /\ lastResolve' = Some([fn |-> fn, conversationId |-> conversationId,
                            senderId |-> senderId,
                            entry |-> entry, url |-> UrlOf(entry)])
    /\ webhookByConversation' =
            SelectSeq(webhookByConversation, LAMBDA p : p.value.expiresAt > Now)
    /\ webhookBySender' = SelectSeq(webhookBySender, LAMBDA p : p.value.expiresAt > Now)
    /\ UNCHANGED <<nextUrl, dedupVars, streamVars>>

RecordResolve(fn, conversationId, senderId, entry) ==
    /\ lastResolve' = Some([fn |-> fn, conversationId |-> conversationId,
                            senderId |-> senderId,
                            entry |-> entry, url |-> UrlOf(entry)])
    /\ UNCHANGED <<webhookByConversation, webhookBySender, nextUrl, dedupVars, streamVars>>

ResolveWebhookCall(conversationId, senderId) ==
    RecordResolve("resolveWebhook", conversationId, senderId,
                  resolveWebhook(webhookByConversation, webhookBySender,
                                 conversationId, senderId, Now))

GetCachedWebhookCall(conversationId) ==
    RecordResolve("getCachedWebhook", conversationId, Absent,
                  getCachedWebhook(webhookByConversation, conversationId, Now))

GetLatestWebhookForSenderCall(senderId) ==
    RecordResolve("getLatestWebhookForSender", Absent, senderId,
                  getLatestWebhookForSender(webhookBySender, senderId, Now))

\* The entry deliver resolves for a reply: the conversation of the event that
\* started the reply is always passed, the sender only outside groups.
deliverResolved(byConversation, bySender, initialConversationId, isGroup, senderId, now) ==
    resolveWebhook(byConversation, bySender, initialConversationId,
                   IF isGroup THEN Absent ELSE senderId, now)

\* deliver: the reply goes to the resolved url, or to the event's own
\* sessionWebhook when nothing is resolved.
DeliverReplyCall(initialConversationId, initialSessionWebhook, isGroup, senderId) ==
    /\ initialSessionWebhook < nextUrl
    /\ LET resolved == deliverResolved(webhookByConversation, webhookBySender,
                                       initialConversationId, isGroup, senderId, Now)
       IN lastResolve' = Some([fn |-> "deliver",
                               conversationId |-> initialConversationId,
                               senderId |-> senderId,
                               isGroup |-> isGroup,
                               entry |-> resolved,
                               url |-> IF resolved = None
                                       THEN Some(initialSessionWebhook)
                                       ELSE UrlOf(resolved)])
    /\ UNCHANGED <<webhookByConversation, webhookBySender, nextUrl, dedupVars, streamVars>>

ShiftEntry(e, d) ==
    [e EXCEPT !.expiresAt = e.expiresAt - d, !.updatedAt = e.updatedAt - d]

ShiftMap(m, d) ==
    [i \in 1..Len(m) |-> [key |-> m[i].key, value |-> ShiftEntry(m[i].value, d)]]

\* The clock moves on by WebhookStep; entries keep their exact timestamps.
AdvanceTimeWebhook ==
    /\ webhookByConversation # <<>>
    /\ \A i \in 1..Len(webhookByConversation) :
            Now - webhookByConversation[i].value.updatedAt
                < MaxWebhookSteps * WebhookStep
    /\ \A i \in 1..Len(webhookBySender) :
            Now - webhookBySender[i].value.updatedAt < MaxWebhookSteps * WebhookStep
    /\ webhookByConversation' = ShiftMap(webhookByConversation, WebhookStep)
    /\ webhookBySender' = ShiftMap(webhookBySender, WebhookStep)
    /\ lastResolve' = None
    /\ UNCHANGED <<nextUrl, dedupVars, streamVars>>

InitWebhook ==
    /\ webhookByConversation = <<>>
    /\ webhookBySender = <<>>
    /\ nextUrl = 1
    /\ lastResolve = None


(***************************************************************************)
(* Client factory (client.ts) and the DWClient objects                     *)
(***************************************************************************)
\* Number of DWClient objects and of monitorStream calls a run makes.
MaxClients == 7
MaxStarts == 2

\* Configured accounts, the key of an account in activeClients and the
\* timer maps (clientKey), and its key in clientCache (id).
Accounts == {"main"}
\* The accountId of the default account: opts.accountId is left undefined.
Undefined == "undefined"
DEFAULT_ACCOUNT_ID == "default"
ClientKey(accountId) == IF accountId = Undefined THEN "__default__" ELSE accountId
CacheId(accountId) == IF accountId = Undefined THEN DEFAULT_ACCOUNT_ID ELSE accountId
\* Account ids the configuration holds no appKey and appSecret for.
Unconfigured == {"unset"}
AccountIds == Accounts \cup Unconfigured
\* The named accounts together with the default one.
AllAccountIds == AccountIds \cup {Undefined}
ClientKeys == {ClientKey(a) : a \in AllAccountIds}
CacheIds == {CacheId(a) : a \in AllAccountIds}

resolveDingTalkCredentials_Always(accountId) == TRUE

\* resolveDingTalkCredentials(cfg, accountId) returns credentials: those of
\* the named account, or the top-level ones for the default account.
resolveDingTalkCredentials(accountId) == accountId \in Accounts \cup {Undefined}

\* Values of { appKey, appSecret }; the configuration of a run holds the
\* first for its accounts.
Credentials == {"key1", "key2"}
ConfiguredCredentials == "key1"

\* A DWClient: its WebSocket ("closed", "opening" after connect(), "open"
\* once connected is true), its registered flag (the service has sent
\* REGISTERED on this socket), whether messageHandler is registered on it,
\* and the clientId and clientSecret it was made with, which are what
\* configCache holds for it.  config.subscriptions is None while it is the
\* array of the SDK's defaultConfig, which all new clients share, and the
\* number of CALLBACK entries for TOPIC_ROBOT of the client's own array
\* otherwise; h_pushedDefault counts the CALLBACK entries the client pushed
\* to the shared array.
NewClient(accountId, creds) ==
    [acct |-> accountId, creds |-> creds, sock |-> "closed", registered |-> FALSE,
     callback |-> FALSE, subscriptions |-> None, h_pushedDefault |-> 0]

Connected_AndRegistered(c) == clients[c].sock = "open" /\ clients[c].registered

\* client.connected
Connected(c) == clients[c].sock = "open"

\* client.disconnect() and cleanupClientInternalState(client) both close the
\* socket and leave connected = false.
Disconnect(cs, c) == [cs EXCEPT ![c].sock = "closed", ![c].registered = FALSE]
DisconnectAll(cs, S) == [c \in 1..Len(cs) |-> IF c \in S THEN Disconnect(cs, c)[c] ELSE cs[c]]
cleanupClientInternalState(cs, c) ==
    [cs EXCEPT ![c].sock = "closed", ![c].registered = FALSE]

\* client.connect(): a new socket is being opened.
Connect(cs, c) == [cs EXCEPT ![c].sock = "opening"]

\* The CALLBACK entries of the array defaultConfig.subscriptions.
RECURSIVE DefaultSubscriptions(_)
DefaultSubscriptions(cs) ==
    IF cs = <<>> THEN 0
    ELSE cs[Len(cs)].h_pushedDefault + DefaultSubscriptions(SubSeq(cs, 1, Len(cs) - 1))

\* The CALLBACK entries for TOPIC_ROBOT in client.config.subscriptions.
CallbackSubscriptions(cs, c) ==
    IF cs[c].subscriptions = None THEN DefaultSubscriptions(cs)
    ELSE The(cs[c].subscriptions)

ResetSubscriptions_Skipped(cs, c) == cs

\* client.config.subscriptions = [{ type: "EVENT", topic: "*" }]
ResetSubscriptions(cs, c) == [cs EXCEPT ![c].subscriptions = Some(0)]

RegisterCallback_Skipped(cs, c) == cs

\* client.registerCallbackListener(TOPIC_ROBOT, messageHandler): the SDK
\* pushes a CALLBACK entry to config.subscriptions and keeps the handler.
RegisterCallback(cs, c) ==
    [cs EXCEPT ![c].callback = TRUE,
               ![c].subscriptions = IF @ = None THEN None ELSE Some(The(@) + 1),
               ![c].h_pushedDefault = IF cs[c].subscriptions = None THEN @ + 1 ELSE @]

\* The cached client createDingTalkClient returns: clientCache and
\* configCache hold an entry for the id, with these credentials.
cachedClient(cs, cache, accountId, creds) ==
    {c \in cache[CacheId(accountId)] : cs[c].creds = creds}

\* createDingTalkClient(cfg, accountId) with credentials creds present: the
\* object it returns, and the objects and the cache it leaves behind.
createdClient(cs, cache, accountId, creds) ==
    IF cachedClient(cs, cache, accountId, creds) # None
    THEN The(cachedClient(cs, cache, accountId, creds))
    ELSE Len(cs) + 1

clientsAfterCreate(cs, cache, accountId, creds) ==
    IF cachedClient(cs, cache, accountId, creds) # None THEN cs
    ELSE Append(cs, NewClient(accountId, creds))

cacheAfterCreate_NotCached(cs, cache, accountId, creds) == cache

cacheAfterCreate(cs, cache, accountId, creds) ==
    [cache EXCEPT ![CacheId(accountId)] = Some(createdClient(cs, cache, accountId, creds))]

clearClientCache_All(cs, cache, id) ==
    DisconnectAll(cs, UNION {cache[i] : i \in DOMAIN cache})

clearClientCache_NoDisconnect(cs, cache, id) == cs

\* clearClientCache(id): the cached client is disconnected, the entry deleted.
clearClientCache(cs, cache, id) == DisconnectAll(cs, cache[id])

cacheAfterClear_Kept(cache, id) == cache

cacheAfterClear(cache, id) == [cache EXCEPT ![id] = None]

(***************************************************************************)
(* Stream coordinator and connection health supervisor (monitor.ts)        *)
(***************************************************************************)
MIN_RECONNECT_DELAY == 2000
MAX_RECONNECT_DELAY == 120000
MAX_SOFT_RECONNECT_ATTEMPTS == 2
RECONNECT_ATTEMPT_CAP == 7
WAIT_FOR_CONNECTED_TIMEOUT == 15000
\* raceWithTimeout(client.connect(), 30_000, "connect timeout")
CONNECT_TIMEOUT == 30000

\* History of a supervisor: the repairs it has started since its last repair
\* that succeeded (h_sinceSuccess) and since the connection was last made or
\* found connected (h_sinceRestored), counted up to the first hard one.
CountRepair(n) == Min(n + 1, MAX_SOFT_RECONNECT_ATTEMPTS + 1)

\* History of a supervisor: h_downSince is the time of its start for as long
\* as the account's Session has not been connected since, remembered up to
\* the tick at which a third repair can start.
DownHorizon == (MAX_SOFT_RECONNECT_ATTEMPTS + 2) * HEALTH_CHECK_INTERVAL

\* History of a supervisor: h_failedAt is the time its last repair failed,
\* until its next repair starts.

\* The closure state startConnectionHealthCheck creates, with the promise of
\* the monitorStream call that created it; tickAt is when the interval was
\* set or last fired.
NewSupervisor(accountId) ==
    [acct |-> accountId, promise |-> "pending", timer |-> TRUE, tickAt |-> Now,
     disconnectedSince |-> None, reconnectAttempts |-> 0, reconnecting |-> FALSE,
     loggedUnregistered |-> FALSE, h_sinceSuccess |-> 0, h_sinceRestored |-> 0,
     h_downSince |-> Some(Now), h_failedAt |-> None]

\* Once clearInterval has run, the callback never runs again and nothing
\* reads the variables of its closure any more: the model forgets them.  A
\* repair the closure is still awaiting goes on.
Forget(s) ==
    IF s.timer THEN s
    ELSE [s EXCEPT !.tickAt = Now, !.disconnectedSince = None,
                   !.reconnectAttempts = 0, !.reconnecting = FALSE,
                   !.loggedUnregistered = FALSE,
                   !.h_sinceSuccess = 0, !.h_sinceRestored = 0,
                   !.h_downSince = None, !.h_failedAt = None]

\* A repair of supervisor k suspended at an await: pc is "connect"
\* (raceWithTimeout(connect())) or "wait" (waitForConnected), target the
\* client being connected, client the one the tick read from activeClients,
\* awaitStart when the await began; h_attempt is the history of the value
\* the attempt gave reconnectAttempts.
NewRepair(k, hard, client, target, attempt) ==
    [sup |-> k, hard |-> hard, client |-> client, target |-> target,
     pc |-> "connect", awaitStart |-> Now, h_attempt |-> attempt]

\* The history of the callback is one step long.
EventsForgotten ==
    /\ lastDone' = None
    /\ UNCHANGED <<inflight, h_failed>>

\* monitorStream for an account with credentials and an unaborted signal.
\* The gateway starts an account that is not running.
Start(accountId) ==
    LET client == createdClient(clients, clientCache, accountId, ConfiguredCredentials)
        created == clientsAfterCreate(clients, clientCache, accountId, ConfiguredCredentials)
    IN /\ resolveDingTalkCredentials(accountId)
       /\ Len(sup) < MaxStarts
       /\ Len(created) <= MaxClients
       /\ activeClients[ClientKey(accountId)] = None
       /\ clientCache' = cacheAfterCreate(clients, clientCache, accountId, ConfiguredCredentials)
       /\ activeClients' = [activeClients EXCEPT ![ClientKey(accountId)] = Some(client)]
       /\ clients' = Connect(RegisterCallback(ResetSubscriptions(created, client), client), client)
       /\ sup' = Append(sup, NewSupervisor(accountId))
       /\ healthCheckIntervals' =
            [healthCheckIntervals EXCEPT ![ClientKey(accountId)] = Some(Len(sup) + 1)]
       /\ cleanupIntervals' =
            [cleanupIntervals EXCEPT ![ClientKey(accountId)] = Some(Len(sup) + 1)]
       /\ UNCHANGED <<repairs, dedupVars, webhookVars>>
       /\ EventsForgotten

\* monitorStream called for an account that is running already: the entries
\* of the registry and of the two interval maps are set over the ones the
\* earlier call made.
StartRunning(accountId) ==
    LET client == createdClient(clients, clientCache, accountId, ConfiguredCredentials)
        created == clientsAfterCreate(clients, clientCache, accountId, ConfiguredCredentials)
    IN /\ resolveDingTalkCredentials(accountId)
       /\ Len(sup) < MaxStarts
       /\ Len(created) <= MaxClients
       /\ activeClients[ClientKey(accountId)] # None
       /\ clientCache' = cacheAfterCreate(clients, clientCache, accountId, ConfiguredCredentials)
       /\ activeClients' = [activeClients EXCEPT ![ClientKey(accountId)] = Some(client)]
       /\ clients' = Connect(RegisterCallback(ResetSubscriptions(created, client), client), client)
       /\ sup' = Append(sup, NewSupervisor(accountId))
       /\ healthCheckIntervals' =
            [healthCheckIntervals EXCEPT ![ClientKey(accountId)] = Some(Len(sup) + 1)]
       /\ cleanupIntervals' =
            [cleanupIntervals EXCEPT ![ClientKey(accountId)] = Some(Len(sup) + 1)]
       /\ UNCHANGED <<repairs, dedupVars, webhookVars>>
       /\ EventsForgotten

\* monitorDingTalkProvider for an account without credentials: it throws
\* before monitorStream is called, and the promise it returned is rejected.
StartRejected(accountId) ==
    /\ ~resolveDingTalkCredentials(accountId)
    /\ Len(sup) < MaxStarts
    /\ sup' = Append(sup, Forget([NewSupervisor(accountId) EXCEPT
                                    !.promise = "rejected", !.timer = FALSE]))
    /\ UNCHANGED <<clients, clientCache, activeClients, healthCheckIntervals,
                   cleanupIntervals, repairs, dedupVars, webhookVars>>
    /\ EventsForgotten

\* clearInterval on the timers the maps hold for the key.
ClearTimers(sp, key) ==
    [k \in 1..Len(sp) |->
        IF k \in healthCheckIntervals[key] THEN Forget([sp[k] EXCEPT !.timer = FALSE])
        ELSE sp[k]]

\* The teardown shared by stopDingTalkMonitor(accountId) and cleanup().
Teardown_KeepsRegistry(key, sp) ==
    /\ sup' = ClearTimers(sp, key)
    /\ healthCheckIntervals' = [healthCheckIntervals EXCEPT ![key] = None]
    /\ cleanupIntervals' = [cleanupIntervals EXCEPT ![key] = None]
    /\ clients' = DisconnectAll(clients, activeClients[key])
    /\ UNCHANGED activeClients
    /\ UNCHANGED <<clientCache, repairs, dedupVars, webhookVars>>
    /\ EventsForgotten

Teardown(key, sp) ==
    /\ sup' = ClearTimers(sp, key)
    /\ healthCheckIntervals' = [healthCheckIntervals EXCEPT ![key] = None]
    /\ cleanupIntervals' = [cleanupIntervals EXCEPT ![key] = None]
    /\ clients' = DisconnectAll(clients, activeClients[key])
    /\ activeClients' = [activeClients EXCEPT ![key] = None]
    /\ UNCHANGED <<clientCache, repairs, dedupVars, webhookVars>>
    /\ EventsForgotten

\* stopDingTalkMonitor(accountId)
Stop(accountId) == Teardown(accountId, sup)

\* stopDingTalkMonitor() without an accountId, which is how the default
\* account is named: "Stop all".
StopAll ==
    /\ sup' = [k \in 1..Len(sup) |->
                IF \E key \in ClientKeys : k \in healthCheckIntervals[key]
                THEN Forget([sup[k] EXCEPT !.timer = FALSE])
                ELSE sup[k]]
    /\ healthCheckIntervals' = [key \in ClientKeys |-> None]
    /\ cleanupIntervals' = [key \in ClientKeys |-> None]
    /\ clients' = DisconnectAll(clients, UNION {activeClients[key] : key \in ClientKeys})
    /\ activeClients' = [key \in ClientKeys |-> None]
    /\ UNCHANGED <<clientCache, repairs, dedupVars, webhookVars>>
    /\ EventsForgotten

\* handleAbort of the k-th monitorStream call: cleanup() and resolve().
Abort(k) ==
    /\ k \in 1..Len(sup)
    /\ sup[k].promise = "pending"
    /\ Teardown(ClientKey(sup[k].acct), [sup EXCEPT ![k].promise = "resolved"])

\* monitorStream called with a signal that is already aborted: the client is
\* created and entered in activeClients, then cleanup() and resolve() run
\* before the callback is registered or connect() is called.
StartAborted(accountId) ==
    LET key == ClientKey(accountId)
        client == createdClient(clients, clientCache, accountId, ConfiguredCredentials)
        created == clientsAfterCreate(clients, clientCache, accountId, ConfiguredCredentials)
    IN /\ resolveDingTalkCredentials(accountId)
       /\ Len(sup) < MaxStarts
       /\ Len(created) <= MaxClients
       /\ activeClients[key] = None
       /\ clientCache' = cacheAfterCreate(clients, clientCache, accountId, ConfiguredCredentials)
       /\ clients' = Disconnect(created, client)
       /\ activeClients' = [activeClients EXCEPT ![key] = None]
       /\ healthCheckIntervals' = [healthCheckIntervals EXCEPT ![key] = None]
       /\ cleanupIntervals' = [cleanupIntervals EXCEPT ![key] = None]
       /\ sup' = Append(ClearTimers(sup, key),
                        Forget([NewSupervisor(accountId) EXCEPT
                                    !.promise = "resolved", !.timer = FALSE]))
       /\ UNCHANGED <<repairs, dedupVars, webhookVars>>
       /\ EventsForgotten

backoffDelay_Uncapped(reconnectAttempts) == MIN_RECONNECT_DELAY * 2 ^ reconnectAttempts

\* Math.min(MIN_RECONNECT_DELAY * Math.pow(2, reconnectAttempts), MAX_RECONNECT_DELAY)
backoffDelay(reconnectAttempts) ==
    Min(MIN_RECONNECT_DELAY * 2 ^ reconnectAttempts, MAX_RECONNECT_DELAY)

RepairSucceeded_StillReconnecting(s) ==
    Forget([s EXCEPT !.reconnectAttempts = 0, !.disconnectedSince = None,
                     !.h_sinceSuccess = 0, !.h_sinceRestored = 0,
                     !.h_downSince = None])

\* The end of a repair: the success branch, the catch branch, and finally.
RepairSucceeded(s) ==
    Forget([s EXCEPT !.reconnectAttempts = 0, !.disconnectedSince = None,
                     !.reconnecting = FALSE,
                     !.h_sinceSuccess = 0, !.h_sinceRestored = 0,
                     !.h_downSince = None])

RepairFailed_StillReconnecting(s) ==
    Forget([s EXCEPT !.disconnectedSince = Some(Now)])

RepairFailed_KeepsSince(s) ==
    Forget([s EXCEPT !.reconnecting = FALSE, !.h_failedAt = Some(Now)])

RepairFailed(s) ==
    Forget([s EXCEPT !.disconnectedSince = Some(Now), !.reconnecting = FALSE,
                     !.h_failedAt = Some(Now)])

\* softReconnect(client) up to its first await.
SoftReconnectBegin(k, s, client) ==
    /\ clients' = Connect(cleanupClientInternalState(clients, client), client)
    /\ repairs' = repairs \cup {NewRepair(k, FALSE, client, client, s.reconnectAttempts)}
    /\ sup' = [sup EXCEPT ![k] = s]
    /\ UNCHANGED <<clientCache, activeClients>>

\* hardReconnect(clientKey, client, ctx, logger) up to its first await.
HardReconnectBegin(k, s, client) ==
    LET id == CacheId(s.acct)
        cleared == clearClientCache(clients, clientCache, id)
        cache == cacheAfterClear(clientCache, id)
        newClient == createdClient(cleared, cache, s.acct, ConfiguredCredentials)
        created == clientsAfterCreate(cleared, cache, s.acct, ConfiguredCredentials)
    IN /\ Len(created) <= MaxClients
       /\ clientCache' = cacheAfterCreate(cleared, cache, s.acct, ConfiguredCredentials)
       /\ clients' = Connect(RegisterCallback(ResetSubscriptions(created, newClient), newClient),
                           newClient)
       /\ repairs' = repairs \cup {NewRepair(k, TRUE, client, newClient, s.reconnectAttempts)}
       /\ sup' = [sup EXCEPT ![k] = s]
       /\ UNCHANGED activeClients

UseHardReconnect_AtLimit(reconnectAttempts) ==
    reconnectAttempts >= MAX_SOFT_RECONNECT_ATTEMPTS

\* const useHardReconnect = reconnectAttempts > MAX_SOFT_RECONNECT_ATTEMPTS
UseHardReconnect(reconnectAttempts) == reconnectAttempts > MAX_SOFT_RECONNECT_ATTEMPTS

MayStartRepair_Unguarded(s, since) ==
    ~(Now - The(since) < backoffDelay(s.reconnectAttempts))

MayStartRepair_NoBackoff(s, since) == ~s.reconnecting

\* Neither "if (reconnecting) return" nor "if (elapsed < backoffDelay) return".
MayStartRepair(s, since) ==
    /\ ~s.reconnecting
    /\ ~(Now - The(since) < backoffDelay(s.reconnectAttempts))

TickConnected_KeepsAttempts(s, registered) ==
    [s EXCEPT !.disconnectedSince = None,
              !.loggedUnregistered = IF registered THEN FALSE ELSE TRUE,
              !.h_sinceRestored = IF s.disconnectedSince # None THEN 0 ELSE @,
              !.h_downSince = None]

\* The tick found client.connected: a past disconnection is over, and the
\* unregistered state is logged once.
TickConnected(s, registered) ==
    [s EXCEPT !.disconnectedSince = None,
              !.reconnectAttempts = IF s.disconnectedSince # None THEN 0 ELSE @,
              !.loggedUnregistered = IF registered THEN FALSE ELSE TRUE,
              !.h_sinceRestored = IF s.disconnectedSince # None THEN 0 ELSE @,
              !.h_downSince = None]

\* One run of the setInterval callback of the k-th supervisor.
Tick(k) ==
    /\ k \in 1..Len(sup)
    /\ sup[k].timer
    /\ LET s == [sup[k] EXCEPT !.tickAt = Now]
           cur == activeClients[ClientKey(s.acct)]
       IN IF cur = None
          THEN /\ sup' = [sup EXCEPT ![k] = s]
               /\ UNCHANGED <<clients, clientCache, activeClients, repairs>>
          ELSE IF Connected(The(cur))
          THEN /\ sup' = [sup EXCEPT ![k] = TickConnected(s, clients[The(cur)].registered)]
               /\ UNCHANGED <<clients, clientCache, activeClients, repairs>>
          ELSE LET since == IF s.disconnectedSince = None THEN Some(Now)
                            ELSE s.disconnectedSince
                   u == [s EXCEPT !.disconnectedSince = since,
                                  !.loggedUnregistered = FALSE]
                   attempts == Min(s.reconnectAttempts + 1, RECONNECT_ATTEMPT_CAP)
                   t == [u EXCEPT !.reconnecting = TRUE, !.reconnectAttempts = attempts,
                                  !.h_sinceSuccess = CountRepair(@),
                                  !.h_sinceRestored = CountRepair(@),
                                  !.h_failedAt = None]
               IN IF ~MayStartRepair(s, since)
                  THEN /\ sup' = [sup EXCEPT ![k] = u]
                       /\ UNCHANGED <<clients, clientCache, activeClients, repairs>>
                  ELSE IF UseHardReconnect(attempts)
                       THEN HardReconnectBegin(k, t, The(cur))
                       ELSE SoftReconnectBegin(k, t, The(cur))
    /\ UNCHANGED <<healthCheckIntervals, cleanupIntervals, dedupVars, webhookVars>>
    /\ EventsForgotten

\* The tail of hardReconnect: activeClients.set(clientKey, newClient).
RegistryAfterRepair(r) ==
    IF r.hard THEN [activeClients EXCEPT ![ClientKey(sup[r.sup].acct)] = Some(r.target)]
    ELSE activeClients

\* The repair returns: try block completed, then finally.
RepairSuccess(r) ==
    /\ repairs' = repairs \ {r}
    /\ sup' = [sup EXCEPT ![r.sup] = RepairSucceeded(@)]
    /\ activeClients' = RegistryAfterRepair(r)

\* The repair throws: catch, then finally.
RepairFailure(r) ==
    /\ repairs' = repairs \ {r}
    /\ sup' = [sup EXCEPT ![r.sup] = RepairFailed(@)]
    /\ UNCHANGED activeClients

\* connect() resolved in time; waitForConnected resolves at once when the
\* client is already connected and starts polling otherwise.
ConnectResolved(r) ==
    /\ r \in repairs
    /\ r.pc = "connect"
    /\ IF Connected(r.target)
       THEN RepairSuccess(r)
       ELSE /\ repairs' = (repairs \ {r}) \cup {[r EXCEPT !.pc = "wait", !.awaitStart = Now]}
            /\ UNCHANGED <<sup, activeClients>>
    /\ UNCHANGED <<clients, clientCache, healthCheckIntervals, cleanupIntervals,
                   dedupVars, webhookVars>>
    /\ EventsForgotten

\* connect() rejected.
ConnectRejected(r) ==
    /\ r \in repairs
    /\ r.pc = "connect"
    /\ RepairFailure(r)
    /\ UNCHANGED <<clients, clientCache, healthCheckIntervals, cleanupIntervals,
                   dedupVars, webhookVars>>
    /\ EventsForgotten

\* The timer of raceWithTimeout fired before connect() settled.
ConnectTimeout(r) ==
    /\ r \in repairs
    /\ r.pc = "connect"
    /\ Now - r.awaitStart >= CONNECT_TIMEOUT
    /\ RepairFailure(r)
    /\ UNCHANGED <<clients, clientCache, healthCheckIntervals, cleanupIntervals,
                   dedupVars, webhookVars>>
    /\ EventsForgotten

\* A poll of waitForConnected finds the client connected.
WaitConnected(r) ==
    /\ r \in repairs
    /\ r.pc = "wait"
    /\ Connected(r.target)
    /\ RepairSuccess(r)
    /\ UNCHANGED <<clients, clientCache, healthCheckIntervals, cleanupIntervals,
                   dedupVars, webhookVars>>
    /\ EventsForgotten

\* A poll of waitForConnected, more than timeoutMs after its start, finds
\* the client still not connected.
WaitTimeout(r) ==
    /\ r \in repairs
    /\ r.pc = "wait"
    /\ ~Connected(r.target)
    /\ Now - r.awaitStart > WAIT_FOR_CONNECTED_TIMEOUT
    /\ RepairFailure(r)
    /\ UNCHANGED <<clients, clientCache, healthCheckIntervals, cleanupIntervals,
                   dedupVars, webhookVars>>
    /\ EventsForgotten

\* The transport: a socket being opened opens; a socket is lost.
SocketOpen(c) ==
    /\ c \in 1..Len(clients)
    /\ clients[c].sock = "opening"
    /\ clients' = [clients EXCEPT ![c].sock = "open"]
    /\ sup' = [k \in 1..Len(sup) |->
                IF activeClients[ClientKey(sup[k].acct)] = Some(c)
                THEN [sup[k] EXCEPT !.h_downSince = None]
                ELSE sup[k]]
    /\ UNCHANGED <<clientCache, activeClients, healthCheckIntervals, cleanupIntervals,
                   repairs, dedupVars, webhookVars>>
    /\ EventsForgotten

\* The service acknowledges the session on an open socket (REGISTERED).
SocketRegistered(c) ==
    /\ c \in 1..Len(clients)
    /\ clients[c].sock = "open"
    /\ ~clients[c].registered
    /\ clients' = [clients EXCEPT ![c].registered = TRUE]
    /\ UNCHANGED <<clientCache, activeClients, healthCheckIntervals, cleanupIntervals,
                   sup, repairs, dedupVars, webhookVars>>
    /\ EventsForgotten

SocketLost(c) ==
    /\ c \in 1..Len(clients)
    /\ clients[c].sock # "closed"
    /\ clients' = [clients EXCEPT ![c].sock = "closed", ![c].registered = FALSE]
    /\ UNCHANGED <<clientCache, activeClients, healthCheckIntervals, cleanupIntervals,
                   sup, repairs, dedupVars, webhookVars>>
    /\ EventsForgotten

\* getConnectionHealth(accountId): the flags of the account's current Session.
getConnectionHealth(accountId) ==
    LET cur == activeClients[ClientKey(accountId)]
    IN [connected |-> \E c \in cur : Connected(c),
        registered |-> \E c \in cur : clients[c].registered]

\* dingtalkHeartbeat.checkReady({cfg, accountId}).ok in stream mode
checkReady(accountId) ==
    IF ~resolveDingTalkCredentials(accountId) THEN FALSE
    ELSE getConnectionHealth(accountId).connected

\* The callback invocations suspended at a time; res.headers.messageId
\* tells them apart.
MaxInflight == 1
MessageIds == 1..(MaxInflight + 1)
FreeMessageId == CHOOSE m \in MessageIds : \A i \in inflight : i.messageId # m

Ack_AlwaysSuccess(client, success) == [via |-> client, success |-> TRUE]

Ack_ViaRegistry(client, success) ==
    [via |-> IF activeClients[ClientKey(clients[client].acct)] = None THEN client
             ELSE The(activeClients[ClientKey(clients[client].acct)]),
     success |-> success]

\* currentClient.socketCallBackResponse(res.headers.messageId, {success})
Ack(client, success) == [via |-> client, success |-> success]

Done(msgId, handled, acks) == [msgId |-> msgId, handled |-> handled, acks |-> acks]

\* The isDuplicate call of the callback.
DeliverIsDuplicate(msgId) ==
    /\ seen' = isDuplicateSeen(seen, msgId, Now)
    /\ h_sighted' = SightedAfter(msgId, isDuplicateResult(seen, msgId, Now))
    /\ h_evicted' = EvictedAfter(msgId, isDuplicateResult(seen, msgId, Now),
                                 EvictedBy(seen, msgId, Now))
    /\ UNCHANGED <<lastCall, h_dupHits>>

Deliver_PerAccount(c, msgId, parses) ==
    LET cur == activeClients[ClientKey(clients[c].acct)]
        own == clients[c].acct = "main"
    IN /\ c \in 1..Len(clients)
       /\ clients[c].callback
       /\ Connected(c)
       /\ IF cur = None
          THEN /\ lastDone' = Some(Done(msgId, FALSE, <<>>))
               /\ UNCHANGED <<inflight, h_failed, dedupVars>>
          ELSE IF ~parses
          THEN /\ lastDone' = Some(Done(msgId, FALSE, <<Ack(The(cur), FALSE)>>))
               /\ UNCHANGED <<inflight, h_failed, dedupVars>>
          ELSE /\ IF own THEN DeliverIsDuplicate(msgId) ELSE UNCHANGED dedupVars
               /\ IF own /\ isDuplicateResult(seen, msgId, Now)
                  THEN /\ lastDone' = Some(Done(msgId, FALSE, <<Ack(The(cur), TRUE)>>))
                       /\ UNCHANGED <<inflight, h_failed>>
                  ELSE /\ Cardinality(inflight) < MaxInflight
                       /\ lastDone' = None
                       /\ h_failed' = h_failed \ {msgId}
                       /\ inflight' = inflight \cup
                            {[messageId |-> FreeMessageId, msgId |-> msgId,
                              client |-> The(cur)]}
       /\ UNCHANGED <<sessionVars, webhookVars>>

\* The callback buildMessageHandler returns, run for an event the service
\* delivers over client c, up to its return or to its await of
\* handleDingTalkMessage.  The event carries the id msgId (or none) in a
\* body JSON.parse accepts, or a body it rejects.
Deliver(c, msgId, parses) ==
    LET cur == activeClients[ClientKey(clients[c].acct)]
    IN /\ c \in 1..Len(clients)
       /\ clients[c].callback
       /\ Connected(c)
       /\ IF cur = None
          THEN /\ lastDone' = Some(Done(msgId, FALSE, <<>>))
               /\ UNCHANGED <<inflight, h_failed, dedupVars>>
          ELSE IF ~parses
          THEN /\ lastDone' = Some(Done(msgId, FALSE, <<Ack(The(cur), FALSE)>>))
               /\ UNCHANGED <<inflight, h_failed, dedupVars>>
          ELSE /\ DeliverIsDuplicate(msgId)
               /\ IF isDuplicateResult(seen, msgId, Now)
                  THEN /\ lastDone' = Some(Done(msgId, FALSE, <<Ack(The(cur), TRUE)>>))
                       /\ UNCHANGED <<inflight, h_failed>>
                  ELSE /\ Cardinality(inflight) < MaxInflight
                       /\ lastDone' = None
                       /\ h_failed' = h_failed \ {msgId}
                       /\ inflight' = inflight \cup
                            {[messageId |-> FreeMessageId, msgId |-> msgId,
                              client |-> The(cur)]}
       /\ UNCHANGED <<sessionVars, webhookVars>>

\* handleDingTalkMessage settles: the callback acknowledges success after a
\* return and failure, in its catch block, after a throw.
HandlerReturn(i, ok) ==
    /\ i \in inflight
    /\ inflight' = inflight \ {i}
    /\ lastDone' = Some(Done(i.msgId, TRUE, <<Ack(i.client, ok)>>))
    /\ UNCHANGED <<h_failed, sessionVars, dedupVars, webhookVars>>

\* The same step with its outcome kept in the history.
HandlerReturnRecorded(i, ok) ==
    /\ i \in inflight
    /\ inflight' = inflight \ {i}
    /\ lastDone' = Some(Done(i.msgId, TRUE, <<Ack(i.client, ok)>>))
    /\ h_failed' = IF ok THEN h_failed \ {i.msgId}
                   ELSE h_failed \cup ({i.msgId} \cap MsgIds)
    /\ UNCHANGED <<sessionVars, dedupVars, webhookVars>>

\* disconnectedSince is only compared against backoff delays of at most
\* MAX_RECONNECT_DELAY.
ShiftSince(since, d) == {Max(t - d, Now - MAX_RECONNECT_DELAY) : t \in since}

ShiftSeen(s, d) ==
    [i \in 1..Len(s) |-> [id |-> s[i].id, ts |-> ShiftTs(s[i].ts, d)]]

ShiftSupervisor(s, d) ==
    Forget([s EXCEPT !.disconnectedSince = ShiftSince(@, d),
                     !.tickAt = Max(@ - d, Now - HEALTH_CHECK_INTERVAL),
                     !.h_downSince = {Max(t - d, Now - DownHorizon) : t \in @},
                     !.h_failedAt = ShiftSince(@, d)])

ShiftRepair(r, d) == [r EXCEPT !.awaitStart = Max(@ - d, Now - CONNECT_TIMEOUT)]

\* The clock moves on by d milliseconds.
AdvanceTime(d) ==
    /\ sup' = [k \in 1..Len(sup) |-> ShiftSupervisor(sup[k], d)]
    /\ repairs' = {ShiftRepair(r, d) : r \in repairs}
    /\ seen' = ShiftSeen(seen, d)
    /\ h_sighted' = [m \in AnyMsgId |-> {ShiftTs(t, d) : t \in h_sighted[m]}]
    /\ lastCall' = None
    /\ lastDone' = None
    /\ h_failed' = {m \in h_failed :
                        \E t \in h_sighted[m] : Now - ShiftTs(t, d) < DEDUP_TTL_MS}
    /\ UNCHANGED <<h_evicted, h_dupHits, webhookVars, clients, clientCache,
                   activeClients, healthCheckIntervals, cleanupIntervals,
                   inflight>>

\* Timers fire when they are due: the clock does not move past the next run
\* of a scheduled interval, past the timeout of a pending raceWithTimeout, or
\* past the poll of waitForConnected that gives up.
DeadlinesAllow(d) ==
    /\ \A k \in 1..Len(sup) :
            sup[k].timer => (Now - sup[k].tickAt) + d <= HEALTH_CHECK_INTERVAL
    /\ \A r \in repairs :
            /\ r.pc = "connect" => (Now - r.awaitStart) + d <= CONNECT_TIMEOUT
            /\ r.pc = "wait" => Now - r.awaitStart <= WAIT_FOR_CONNECTED_TIMEOUT

\* The interval of the k-th supervisor is due and its callback runs.
TimerFires(k) ==
    /\ k \in 1..Len(sup)
    /\ Now - sup[k].tickAt >= HEALTH_CHECK_INTERVAL
    /\ Tick(k)

\* The clock of the supervisor advances from one health check to the next.
TickStep == HEALTH_CHECK_INTERVAL

ClockTick == DeadlinesAllow(TickStep) /\ AdvanceTime(TickStep)

InitStream ==
    /\ clients = <<>>
    /\ clientCache = [id \in CacheIds |-> None]
    /\ activeClients = [key \in ClientKeys |-> None]
    /\ healthCheckIntervals = [key \in ClientKeys |-> None]
    /\ cleanupIntervals = [key \in ClientKeys |-> None]
    /\ sup = <<>>
    /\ repairs = {}
    /\ inflight = {}
    /\ lastDone = None
    /\ h_failed = {}

Init == InitDedup /\ InitWebhook /\ InitStream

NextDedup ==
    \/ \E msgId \in AnyMsgId : IsDuplicateCall(msgId)
    \/ AdvanceTimeDedup

SpecDedup == Init /\ [][NextDedup]_vars

NextWebhook ==
    \/ \E conversationId \in ConversationIds, url \in 1..MaxRecords,
          expiresAt \in ExpiresAtArgs, senderId \in SenderIds \cup {Absent} :
            cacheSessionWebhook(conversationId, url, expiresAt, senderId)
    \/ \E conversationId \in ConversationIds \cup {Absent},
          senderId \in SenderIds \cup {Absent} :
            ResolveWebhookCall(conversationId, senderId)
    \/ \E conversationId \in ConversationIds \cup {Absent} :
            GetCachedWebhookCall(conversationId)
    \/ \E senderId \in SenderIds : GetLatestWebhookForSenderCall(senderId)
    \/ \E initialConversationId \in ConversationIds,
          initialSessionWebhook \in 1..MaxRecords, isGroup \in BOOLEAN,
          senderId \in SenderIds \cup {Absent} :
            DeliverReplyCall(initialConversationId, initialSessionWebhook,
                             isGroup, senderId)
    \/ AdvanceTimeWebhook

SpecWebhook == Init /\ [][NextWebhook]_vars

\* The account's life cycle, its supervisor and the transport, with timers
\* that fire when due.
NextSession ==
    \/ \E a \in AccountIds : Start(a)
    \/ \E a \in AccountIds : StartAborted(a)
    \/ \E a \in AccountIds : StartRejected(a)
    \/ \E a \in AccountIds : Stop(a)
    \/ \E k \in 1..MaxStarts : Abort(k)
    \/ \E k \in 1..MaxStarts : TimerFires(k)
    \/ \E r \in repairs : ConnectResolved(r)
    \/ \E r \in repairs : ConnectRejected(r)
    \/ \E r \in repairs : ConnectTimeout(r)
    \/ \E r \in repairs : WaitConnected(r)
    \/ \E r \in repairs : WaitTimeout(r)
    \/ \E c \in 1..MaxClients : SocketOpen(c)
    \/ \E c \in 1..MaxClients : SocketRegistered(c)
    \/ \E c \in 1..MaxClients : SocketLost(c)
    \/ ClockTick

Spec == Init /\ [][NextSession]_vars

\* Timers fire when due, the clock moves on, and waitForConnected polls.
Fairness ==
    /\ WF_vars(ClockTick)
    /\ \A k \in 1..MaxStarts : WF_vars(TimerFires(k))
    /\ WF_vars(\E r \in repairs : ConnectTimeout(r))
    /\ WF_vars(\E r \in repairs : WaitTimeout(r))
    /\ WF_vars(\E r \in repairs : WaitConnected(r))

SpecLive == Init /\ [][NextSession]_vars /\ Fairness

\* The callback at work during one monitorStream call of the account, with
\* its repairs and its stop, over connections that end only by disconnect().
MaxEventClients == 2
EventScope == Len(sup) <= 1 /\ Len(clients) <= MaxEventClients

EventsStart(a) == Start(a) /\ EventScope'

EventsTimerFires(k) == TimerFires(k) /\ EventScope'

NextEvents ==
    \/ \E a \in AccountIds : EventsStart(a)
    \/ \E a \in AccountIds : Stop(a)
    \/ \E k \in 1..MaxStarts : EventsTimerFires(k)
    \/ \E r \in repairs : ConnectResolved(r)
    \/ \E r \in repairs : ConnectRejected(r)
    \/ \E r \in repairs : ConnectTimeout(r)
    \/ \E r \in repairs : WaitConnected(r)
    \/ \E r \in repairs : WaitTimeout(r)
    \/ \E c \in 1..MaxClients : SocketOpen(c)
    \/ \E c \in 1..MaxClients, msgId \in AnyMsgId, parses \in BOOLEAN :
            (parses \/ msgId = EmptyMsgId) /\ Deliver(c, msgId, parses)
    \/ \E i \in inflight, ok \in BOOLEAN : HandlerReturn(i, ok)
    \/ ClockTick

SpecEvents == Init /\ [][NextEvents]_vars

\* Two accounts side by side, the named one and the default one, each
\* started once, over connections that end only by disconnect().
MaxAccountClients == 3
AccountsScope ==
    /\ \A j, k \in 1..Len(sup) : sup[j].acct = sup[k].acct => j = k
    /\ Len(clients) <= MaxAccountClients

AccountsStart(a) == Start(a) /\ AccountsScope'

AccountsTimerFires(k) == TimerFires(k) /\ AccountsScope'

NextAccounts ==
    \/ \E a \in AllAccountIds : AccountsStart(a)
    \/ \E key \in ClientKeys : Stop(key)
    \/ StopAll
    \/ \E k \in 1..MaxStarts : Abort(k)
    \/ \E k \in 1..MaxStarts : AccountsTimerFires(k)
    \/ \E r \in repairs : ConnectResolved(r)
    \/ \E r \in repairs : ConnectRejected(r)
    \/ \E r \in repairs : ConnectTimeout(r)
    \/ \E r \in repairs : WaitConnected(r)
    \/ \E r \in repairs : WaitTimeout(r)
    \/ \E c \in 1..MaxClients : SocketOpen(c)
    \/ ClockTick

SpecAccounts == Init /\ [][NextAccounts]_vars

\* The life cycle of an account whose start may be called again while it
\* is running, over connections that end only by disconnect().
StartsScope == Len(clients) <= MaxAccountClients

StartsTimerFires(k) == TimerFires(k) /\ StartsScope'

NextStarts ==
    \/ \E a \in AccountIds : Start(a)
    \/ \E a \in AccountIds : StartRunning(a)
    \/ \E a \in AccountIds : Stop(a)
    \/ \E k \in 1..MaxStarts : Abort(k)
    \/ \E k \in 1..MaxStarts : StartsTimerFires(k)
    \/ \E r \in repairs : ConnectResolved(r)
    \/ \E r \in repairs : ConnectRejected(r)
    \/ \E r \in repairs : ConnectTimeout(r)
    \/ \E r \in repairs : WaitConnected(r)
    \/ \E r \in repairs : WaitTimeout(r)
    \/ \E c \in 1..MaxClients : SocketOpen(c)
    \/ ClockTick

SpecStarts == Init /\ [][NextStarts]_vars

\* The callback of an account that is started once, with the outcomes of
\* the handler remembered, over a connection that is up at every health
\* check and ends only by disconnect().
RedeliveryScope == Len(sup) <= 1 /\ repairs = {}

RedeliveryStart(a) == Start(a) /\ RedeliveryScope'

RedeliveryTimerFires(k) == TimerFires(k) /\ RedeliveryScope'

NextRedelivery ==
    \/ \E a \in AccountIds : RedeliveryStart(a)
    \/ \E a \in AccountIds : Stop(a)
    \/ \E k \in 1..MaxStarts : RedeliveryTimerFires(k)
    \/ \E c \in 1..MaxClients : SocketOpen(c)
    \/ \E c \in 1..MaxClients, msgId \in AnyMsgId, parses \in BOOLEAN :
            (parses \/ msgId = EmptyMsgId) /\ Deliver(c, msgId, parses)
    \/ \E i \in inflight, ok \in BOOLEAN : HandlerReturnRecorded(i, ok)
    \/ ClockTick

SpecRedelivery == Init /\ [][NextRedelivery]_vars

\* The callbacks of two accounts, the named one and the default one, each
\* started once, over connections that are up at every health check.
SharedScope ==
    /\ \A j, k \in 1..Len(sup) : sup[j].acct = sup[k].acct => j = k
    /\ repairs = {}

SharedStart(a) == Start(a) /\ SharedScope'

SharedTimerFires(k) == TimerFires(k) /\ SharedScope'

NextShared ==
    \/ \E a \in AllAccountIds : SharedStart(a)
    \/ \E key \in ClientKeys : Stop(key)
    \/ \E k \in 1..MaxStarts : SharedTimerFires(k)
    \/ \E c \in 1..MaxClients : SocketOpen(c)
    \/ \E c \in 1..MaxClients, msgId \in AnyMsgId, parses \in BOOLEAN :
            (parses \/ msgId = EmptyMsgId) /\ Deliver(c, msgId, parses)
    \/ \E i \in inflight, ok \in BOOLEAN : HandlerReturn(i, ok)
    \/ ClockTick

SpecShared == Init /\ [][NextShared]_vars

(***************************************************************************)
(* Properties of the deduplication ledger, checked under SpecDedup         *)
(***************************************************************************)
\* The call was made less than TTL after isDuplicate last returned false for the id.
WithinTtl(c) == c.prior # None /\ Now - The(c.prior) < DEDUP_TTL_MS

\* C6 as stated: for every (non-empty) id, each isDuplicate call made within
\* TTL of the first sighting of that id (the call that returned false)
\* returns true, so false is returned exactly once.
C6_AsStated == \A c \in lastCall : (c.msgId # EmptyMsgId /\ WithinTtl(c)) => c.ret

\* C6 amended: for every non-empty id, the first call returns false and every
\* call made within TTL of the latest false return gives true unless the
\* capacity eviction removed the id's entry in between; true is returned
\* only within TTL of a sighting; the empty id is never a duplicate.
C6_FalseOnceWithinTtl ==
    \A c \in lastCall :
        /\ (c.msgId # EmptyMsgId /\ WithinTtl(c) /\ ~c.priorEvicted) => c.ret
        /\ c.ret => (c.msgId # EmptyMsgId /\ WithinTtl(c))

\* A duplicate hit, half a TTL after the sighting, with another id recorded.
C6_Witness ==
    \E c \in lastCall :
        /\ c.ret /\ Now - The(c.prior) = DedupStep
        /\ Len(seen) = DEDUP_MAX_ENTRIES

\* C7: a duplicate hit leaves the recorded timestamp as it was, and the first
\* call made TTL or more after the recorded sighting returns false and
\* records the id again with the current time, whatever duplicate hits
\* happened in between.
C7_NoRefreshOnHit ==
    \A c \in lastCall :
        /\ c.ret => SeenGet(seen, c.msgId) = c.prior
        /\ (c.msgId # EmptyMsgId /\ c.prior # None /\ ~WithinTtl(c))
                => (~c.ret /\ SeenGet(seen, c.msgId) = Some(Now))

\* An id that had duplicate hits is new again once TTL has passed.
C7_Witness ==
    \E c \in lastCall : c.priorHits /\ c.prior # None /\ ~WithinTtl(c) /\ ~c.ret

\* C8: the ledger never holds more than DEDUP_MAX_ENTRIES entries (and no
\* msgId twice).
C8_LedgerBounded ==
    /\ Len(seen) <= DEDUP_MAX_ENTRIES
    /\ \A i, j \in 1..Len(seen) : seen[i].id = seen[j].id => i = j

\* A new id was inserted into a full ledger of unexpired entries.
C8_Witness ==
    \E c \in lastCall :
        /\ ~c.ret /\ c.sizeBefore = DEDUP_MAX_ENTRIES
        /\ Len(seen) = DEDUP_MAX_ENTRIES /\ h_evicted # {}

\* The entries of a ledger, and those of the ledger that have not expired.
Entries(s) == {s[i] : i \in 1..Len(s)}
Young(s) == {e \in Entries(s) : Now - e.ts < DEDUP_TTL_MS}

\* C32: a call that inserts an id into a ledger at capacity leaves none of
\* the entries that had reached TTL; if fewer than DEDUP_MAX_ENTRIES younger
\* entries remained, all of them are kept; otherwise exactly one of them is
\* gone, one whose timestamp is the smallest; and the id is recorded with
\* the current time.
C32_PurgeThenEvictOne ==
    [][\A c \in lastCall' :
          (~c.ret /\ c.msgId # EmptyMsgId /\ c.sizeBefore >= DEDUP_MAX_ENTRIES) =>
             LET new == [id |-> c.msgId, ts |-> Now]
                 kept == Entries(seen') \ {new}
                 gone == Young(seen) \ kept
             IN /\ new \in Entries(seen')
                /\ kept \subseteq Young(seen)
                /\ IF Cardinality(Young(seen)) < DEDUP_MAX_ENTRIES
                   THEN gone = {}
                   ELSE /\ Cardinality(gone) = 1
                        /\ \A e \in gone : \A y \in Young(seen) : e.ts <= y.ts
      ]_vars

\* An id was inserted into a full ledger holding an expired and a younger
\* entry: the purge made room and the younger entry is still there.
C32_Witness ==
    \E c \in lastCall :
        /\ ~c.ret /\ c.sizeBefore = DEDUP_MAX_ENTRIES
        /\ Len(seen) = DEDUP_MAX_ENTRIES
        /\ \E i \in 1..Len(seen) : seen[i].id # c.msgId /\ seen[i].ts < Now
        /\ h_evicted = {}

(***************************************************************************)
(* Properties of the routing cache, checked under SpecWebhook              *)
(***************************************************************************)
LiveEntries == {webhookByConversation[i].value : i \in 1..Len(webhookByConversation)}
LiveNow(S) == {e \in S : e.expiresAt > Now}
Freshest(S) == {e \in S : \A f \in S : f.updatedAt <= e.updatedAt}
Urls(S) == {e.url : e \in S}

ExactTier(r) ==
    IF r.conversationId = Absent THEN {}
    ELSE LiveNow(MapGet(webhookByConversation, r.conversationId))

SenderTier(r) ==
    IF r.senderId = Absent THEN {}
    ELSE LiveNow(MapGet(webhookBySender, r.senderId))

\* C9: resolveWebhook returns the unexpired entry of the exact conversation;
\* failing that the unexpired entry of the sender; failing that an unexpired
\* conversation entry of greatest updatedAt; and nothing exactly when no
\* tier has an unexpired entry.
C9_ResolveOrder ==
    \A r \in lastResolve :
        r.fn = "resolveWebhook" =>
            IF ExactTier(r) # {} THEN r.url = Urls(ExactTier(r))
            ELSE IF SenderTier(r) # {} THEN r.url = Urls(SenderTier(r))
            ELSE IF LiveNow(LiveEntries) # {}
                 THEN r.url # None /\ r.url \subseteq Urls(Freshest(LiveNow(LiveEntries)))
                 ELSE r.url = None

\* The sender tier decided, and the global tier would have answered otherwise.
C9_Witness ==
    \E r \in lastResolve :
        /\ r.fn = "resolveWebhook"
        /\ ExactTier(r) = {} /\ SenderTier(r) # {}
        /\ LiveNow(LiveEntries) # {}
        /\ r.url \cap Urls(Freshest(LiveNow(LiveEntries))) = {}

\* C10: no resolution function returns an entry whose expiresAt is earlier
\* than the time of the call.
C10_NeverExpired ==
    \A r \in lastResolve : \A e \in r.entry : ~(e.expiresAt < Now)

\* The exact conversation's entry has expired and another entry is returned.
C10_Witness ==
    \E r \in lastResolve :
        /\ r.conversationId # Absent
        /\ \E e \in MapGet(webhookByConversation, r.conversationId) : e.expiresAt < Now
        /\ r.entry # None

\* C11 as stated: a cacheSessionWebhook call for a sender leaves its entry
\* as the sender's entry and as the conversation's entry, so that resolving
\* by the sender alone returns its endpoint while it has not expired; the
\* entries of the other conversations stay, and resolving by such a
\* conversation still returns its endpoint while that has not expired.
C11_AsStated ==
    [][\A conversationId \in ConversationIds, url \in 1..MaxRecords,
          expiresAt \in ExpiresAtArgs, senderId \in SenderIds :
          cacheSessionWebhook(conversationId, url, expiresAt, senderId) =>
            LET entry == NewEntry(conversationId, url, expiresAt)
            IN /\ MapGet(webhookBySender', senderId) = Some(entry)
               /\ MapGet(webhookByConversation', conversationId) = Some(entry)
               /\ NotExpired(entry, Now) =>
                    resolveWebhook(webhookByConversation', webhookBySender',
                                   Absent, senderId, Now) = Some(entry)
               /\ \A other \in ConversationIds \ {conversationId} :
                    /\ MapGet(webhookByConversation', other)
                            = MapGet(webhookByConversation, other)
                    /\ ExactEntry(webhookByConversation, other, Now) # None =>
                         resolveWebhook(webhookByConversation', webhookBySender',
                                        other, senderId, Now)
                            = ExactEntry(webhookByConversation, other, Now)
      ]_vars

\* C12 as stated: a reply of a one-to-one conversation goes to the sender's
\* unexpired endpoint of the time of sending, whichever conversation the
\* event that started the reply came from.
C12_AsStated ==
    \A r \in lastResolve :
        (r.fn = "deliver" /\ ~r.isGroup /\ SenderTier(r) # {}) =>
            r.url = Urls(SenderTier(r))

\* The keys of a Map.
MapKeys(m) == {m[i].key : i \in 1..Len(m)}

\* C33: a step of the reply path (resolveWebhook, getCachedWebhook,
\* getLatestWebhookForSender, deliver) leaves both maps as they are; no step
\* removes a key from either map; and outside the passing of time the entry
\* of a key changes only to an entry recorded now, in the sender map only to
\* one recorded later than the entry it replaces.
C33_ReplyPathReadOnly ==
    [][/\ lastResolve' # None =>
            UNCHANGED <<webhookByConversation, webhookBySender>>
       /\ MapKeys(webhookByConversation) \subseteq MapKeys(webhookByConversation')
       /\ MapKeys(webhookBySender) \subseteq MapKeys(webhookBySender')
       /\ ~AdvanceTimeWebhook =>
            /\ \A k \in MapKeys(webhookByConversation) :
                 \A new \in MapGet(webhookByConversation', k) :
                     new \in MapGet(webhookByConversation, k) \/ new.updatedAt = Now
            /\ \A k \in MapKeys(webhookBySender) :
                 \A new \in MapGet(webhookBySender', k) :
                     \/ new \in MapGet(webhookBySender, k)
                     \/ /\ new.updatedAt = Now
                        /\ \A old \in MapGet(webhookBySender, k) :
                               old.updatedAt < new.updatedAt
      ]_vars

\* A resolution has just been made while both maps hold an expired entry:
\* the expired entries are still there.
C33_Witness ==
    /\ lastResolve # None
    /\ \E i \in 1..Len(webhookByConversation) :
            webhookByConversation[i].value.expiresAt <= Now
    /\ \E i \in 1..Len(webhookBySender) : webhookBySender[i].value.expiresAt <= Now

\* C34 as stated: a resolution made for a conversation returns no entry
\* that was recorded for a conversation of another account.
C34_AsStated ==
    \A r \in lastResolve :
        r.conversationId # Absent =>
            \A e \in r.entry :
                ConversationAccount(e.conversationId) = ConversationAccount(r.conversationId)

(***************************************************************************)
(* Properties of the sessions and the supervisor, checked under Spec       *)
(***************************************************************************)
\* A live Session: connected or connecting, with the inbound callback on it.
Live(c) == clients[c].sock # "closed" /\ clients[c].callback
LiveSessions(a) == {c \in 1..Len(clients) : clients[c].acct = a /\ Live(c)}

\* The repairs of an account that are suspended at an await.
RepairsInFlight(a) == {r \in repairs : sup[r.sup].acct = a}

C4_AsStated == \A a \in Accounts : Cardinality(RepairsInFlight(a)) <= 1

\* C13 as stated: stop() for an account cancels the account's interval
\* tasks, disconnects its Session and removes it from the registry, and
\* also unregisters the callback from it and evicts it from the factory's
\* cache, so that a later start builds a new Session.
C13_AsStated ==
    [][\A a \in Accounts :
         Stop(a) =>
           /\ healthCheckIntervals'[ClientKey(a)] = None
           /\ cleanupIntervals'[ClientKey(a)] = None
           /\ \A k \in 1..Len(sup) : sup[k].acct = a => ~sup'[k].timer
           /\ activeClients'[ClientKey(a)] = None
           /\ \A c \in activeClients[ClientKey(a)] :
                /\ clients'[c].sock = "closed"
                /\ ~clients'[c].callback
                /\ c \notin clientCache'[CacheId(a)]
      ]_vars

\* After the step: the account has no interval task, no registry entry and
\* no Session with a socket, and the k-th start has resolved.
TornDown(a, k) ==
    /\ healthCheckIntervals'[ClientKey(a)] = None
    /\ cleanupIntervals'[ClientKey(a)] = None
    /\ \A j \in 1..Len(sup') : sup'[j].acct = a => ~sup'[j].timer
    /\ activeClients'[ClientKey(a)] = None
    /\ \A c \in 1..Len(clients') : clients'[c].acct = a => clients'[c].sock = "closed"
    /\ sup'[k].promise = "resolved"

\* C14 as stated: when the abort signal of a start fires, or is already
\* aborted when start is called, the account's timers are cancelled, its
\* Session is disconnected and removed from the registry, and the start's
\* completion resolves.
C14_AsStated ==
    [][/\ \A k \in 1..MaxStarts : Abort(k) => TornDown(sup[k].acct, k)
       /\ \A a \in Accounts : StartAborted(a) => TornDown(a, Len(sup) + 1)
      ]_vars

\* C15: a start for an account without credentials is rejected and changes
\* nothing else: no client is created or cached for the account, the
\* registry and the interval maps get no entry for it, and no timer and no
\* repair (no connect) ever belongs to that start.
C15_FailsBeforeConnecting ==
    [][\A k \in 1..Len(sup') :
          sup'[k].acct \in Unconfigured =>
            /\ sup'[k].promise = "rejected"
            /\ ~sup'[k].timer
            /\ \A r \in repairs' : r.sup # k
            /\ \A c \in 1..Len(clients') : clients'[c].acct # sup'[k].acct
            /\ clientCache'[CacheId(sup'[k].acct)] = None
            /\ activeClients'[ClientKey(sup'[k].acct)] = None
            /\ healthCheckIntervals'[ClientKey(sup'[k].acct)] = None
            /\ cleanupIntervals'[ClientKey(sup'[k].acct)] = None
            /\ k > Len(sup) =>
                 UNCHANGED <<clients, clientCache, activeClients,
                             healthCheckIntervals, cleanupIntervals, repairs>>
      ]_vars

\* A start was rejected for want of credentials while another account's
\* start is running with a repair in flight.
C15_Witness ==
    \E k \in 1..Len(sup) :
        /\ sup[k].promise = "rejected"
        /\ \E j \in 1..Len(sup) : sup[j].timer /\ \E r \in repairs : r.sup = j

\* The socket of client c is open, whatever its registered flag.
SocketIsOpen(c) == clients[c].sock = "open"

\* The variables of the supervisor's closure that decide about repairs.
SupervisorState(s) ==
    <<s.disconnectedSince, s.reconnectAttempts, s.reconnecting>>

RepairsStarted == {r \in repairs' \ repairs : r.pc = "connect" /\ r.awaitStart = Now}
RepairsEnded == {r \in repairs : \A q \in repairs' : q.sup # r.sup}

\* C18 as stated: counting the repairs a supervisor has started since its
\* last successful repair, the first and the second are soft and every
\* later one is hard.
C18_AsStated ==
    [][\A r \in RepairsStarted :
          r.hard <=> sup'[r.sup].h_sinceSuccess > MAX_SOFT_RECONNECT_ATTEMPTS
      ]_vars

\* C18: counting the repairs a supervisor has started since the connection
\* was last restored (a repair succeeded, or a health check found the
\* Session connected again), the first and the second are soft and every
\* later one is hard; after a restoration the count is back at zero.
C18_SoftTwiceThenHard ==
    [][/\ \A r \in RepairsStarted :
            r.hard <=> sup'[r.sup].h_sinceRestored > MAX_SOFT_RECONNECT_ATTEMPTS
       /\ \A r \in RepairsEnded :
            sup'[r.sup].disconnectedSince = None => sup'[r.sup].h_sinceRestored = 0
      ]_vars

\* A hard repair is running as the seventh or later attempt in a row, and
\* the counter is at its cap.
C18_Witness ==
    \E r \in repairs :
        /\ r.hard
        /\ sup[r.sup].reconnectAttempts = RECONNECT_ATTEMPT_CAP
        /\ sup[r.sup].h_sinceRestored > MAX_SOFT_RECONNECT_ATTEMPTS

\* For how long the Session of supervisor k has stayed unconnected since the
\* start, if it has.
DownFor(k) == {Now - t : t \in sup[k].h_downSince}

\* C19 as stated: when connected has stayed false for 20 seconds since the
\* start, the supervisor has made its two soft repairs and started the hard
\* one.
C19_AsStated ==
    \A k \in 1..Len(sup) :
        \A down \in DownFor(k) :
            down >= 2 * HEALTH_CHECK_INTERVAL =>
                sup[k].h_sinceSuccess > MAX_SOFT_RECONNECT_ATTEMPTS

\* C19: while connected stays false after the start, repairs start at health
\* checks only: the first (soft) not before the second check, 20 s after
\* the start, the second (soft) not before 30 s and the third (hard) not
\* before 40 s; a hard repair that succeeds leaves attempts at 0 and the
\* readiness check ok.
C19_RepairsAtHealthChecks ==
    [][/\ \A k \in 1..Len(sup') :
            \A t \in sup'[k].h_downSince :
                /\ sup'[k].h_sinceSuccess > 0 =>
                     Now - t >= (sup'[k].h_sinceSuccess + 1) * HEALTH_CHECK_INTERVAL
                /\ \A r \in repairs' :
                     r.sup = k =>
                       (r.hard <=> sup'[k].h_sinceSuccess > MAX_SOFT_RECONNECT_ATTEMPTS)
       /\ \A r \in RepairsEnded :
            (r.hard /\ sup[r.sup].timer /\ sup'[r.sup].disconnectedSince = None) =>
               /\ sup'[r.sup].reconnectAttempts = 0
               /\ checkReady(sup[r.sup].acct)'
      ]_vars

\* Connected has stayed false for 40 s or more since the start, the third
\* repair, a hard one, is running, and the socket of its new Session has
\* opened.
C19_Witness ==
    \E r \in repairs :
        /\ r.hard /\ SocketIsOpen(r.target)
        /\ DownFor(r.sup) = {DownHorizon}
        /\ sup[r.sup].reconnectAttempts = MAX_SOFT_RECONNECT_ATTEMPTS + 1

\* C20: the counter never exceeds RECONNECT_ATTEMPT_CAP and the backoff delay
\* never exceeds MAX_RECONNECT_DELAY; a repair that starts moves the counter
\* up by one, or leaves it at the cap, and the delay computed from it is no
\* shorter than the one before; a repair that fails leaves the counter.
C20_BackoffMonotoneCapped ==
    [][\A k \in 1..Len(sup) :
          /\ sup'[k].reconnectAttempts <= RECONNECT_ATTEMPT_CAP
          /\ backoffDelay(sup'[k].reconnectAttempts) <= MAX_RECONNECT_DELAY
          /\ (\E r \in RepairsStarted : r.sup = k) =>
                /\ sup'[k].reconnectAttempts =
                        Min(sup[k].reconnectAttempts + 1, RECONNECT_ATTEMPT_CAP)
                /\ backoffDelay(sup'[k].reconnectAttempts)
                        >= backoffDelay(sup[k].reconnectAttempts)
          /\ ((\E r \in RepairsEnded : r.sup = k) /\ sup'[k].disconnectedSince # None) =>
                sup'[k].reconnectAttempts = sup[k].reconnectAttempts
      ]_vars

\* The only supervisor is running its eighth repair in a row, which builds
\* the seventh client: the counter has stayed at its cap and the delay at
\* its maximum.
C20_Witness ==
    \E r \in repairs :
        /\ Len(sup) = 1 /\ r.hard /\ r.target = RECONNECT_ATTEMPT_CAP
        /\ sup[r.sup].reconnectAttempts = RECONNECT_ATTEMPT_CAP
        /\ backoffDelay(sup[r.sup].reconnectAttempts) = MAX_RECONNECT_DELAY

RepairsFailed ==
    {r \in RepairsEnded : sup[r.sup].timer /\ sup'[r.sup].disconnectedSince # None}

\* C22 as stated: when a repair fails, disconnectedSince is the time of the
\* failure and the counter is the value the attempt gave it, one above the
\* value before the attempt or the cap.
C22_AsStated ==
    [][\A r \in RepairsFailed :
          /\ sup'[r.sup].disconnectedSince = Some(Now)
          /\ sup'[r.sup].reconnectAttempts = r.h_attempt
      ]_vars

\* C22 as amended: when a repair fails, disconnectedSince is the time of the
\* failure and the counter keeps the value it has, which is the value the
\* attempt gave it at its start (one above the value before, or the cap)
\* unless a health check found the Session connected during the attempt and
\* reset it to 0; the supervisor's next repair starts only when a full
\* backoff period of the counter's value has passed since the failure.
C22_FailureRestartsBackoff ==
    [][/\ \A r \in RepairsFailed :
            /\ sup'[r.sup].disconnectedSince = Some(Now)
            /\ sup'[r.sup].reconnectAttempts = sup[r.sup].reconnectAttempts
            /\ sup'[r.sup].reconnectAttempts \in {r.h_attempt, 0}
       /\ \A r \in RepairsStarted : \A failedAt \in sup[r.sup].h_failedAt :
            Now - failedAt >= backoffDelay(sup[r.sup].reconnectAttempts)
      ]_vars

\* The second repair of a running supervisor failed 10 s ago, the Session is
\* still not connected and the backoff of 8 s has passed since the failure.
C22_Witness ==
    \E k \in 1..Len(sup) :
        /\ sup[k].timer /\ ~sup[k].reconnecting
        /\ sup[k].reconnectAttempts = MAX_SOFT_RECONNECT_ATTEMPTS
        /\ sup[k].h_failedAt = Some(Now - HEALTH_CHECK_INTERVAL)
        /\ sup[k].disconnectedSince = sup[k].h_failedAt
        /\ \A c \in activeClients[ClientKey(sup[k].acct)] : ~SocketIsOpen(c)
        /\ Now - HEALTH_CHECK_INTERVAL + backoffDelay(sup[k].reconnectAttempts) <= Now

\* The repairs of running supervisors that succeed in this step: they were
\* waiting for a Session that is connected.
RepairsSucceeded ==
    {r \in RepairsEnded : sup[r.sup].timer /\ r.pc = "wait" /\ SocketIsOpen(r.target)}

\* C23: a repair that succeeds, and a tick that finds the Session connected,
\* leave reconnectAttempts 0 and disconnectedSince null; in every state a
\* supervisor with disconnectedSince null has reconnectAttempts 0; and when
\* disconnectedSince goes from null to a time, the time is now and
\* reconnectAttempts is 0.
C23_HealthyMeansNoAttempts ==
    /\ [](\A k \in 1..Len(sup) :
            sup[k].disconnectedSince = None => sup[k].reconnectAttempts = 0)
    /\ [][/\ \A r \in RepairsSucceeded :
               /\ sup'[r.sup].reconnectAttempts = 0
               /\ sup'[r.sup].disconnectedSince = None
          /\ \A k \in 1..Len(sup) :
               /\ (/\ TimerFires(k)
                   /\ \E c \in activeClients[ClientKey(sup[k].acct)] : SocketIsOpen(c)) =>
                     /\ sup'[k].reconnectAttempts = 0
                     /\ sup'[k].disconnectedSince = None
               /\ (sup[k].disconnectedSince = None /\ sup'[k].disconnectedSince # None) =>
                     /\ sup'[k].disconnectedSince = Some(Now)
                     /\ sup'[k].reconnectAttempts = 0
         ]_vars

\* A repair of a running supervisor failed, and a later tick found the Session
\* connected: the counter is 0 and disconnectedSince is null.
C23_Witness ==
    \E k \in 1..Len(sup) :
        /\ sup[k].timer /\ ~sup[k].reconnecting
        /\ sup[k].h_failedAt # None
        /\ sup[k].disconnectedSince = None
        /\ sup[k].reconnectAttempts = 0

\* C24: in every state, createDingTalkClient called twice in a row returns
\* the same object the second time, creating nothing and leaving the cache,
\* when the account id and the credentials are the same, and a different
\* object when the account ids differ; and a start of an account whose
\* client is cached registers the cached object.
C24_CreateIdempotentPerAccount ==
    /\ [](\A id1, id2 \in AccountIds : \A creds1, creds2 \in Credentials :
            LET c1 == createdClient(clients, clientCache, id1, creds1)
                cs1 == clientsAfterCreate(clients, clientCache, id1, creds1)
                cache1 == cacheAfterCreate(clients, clientCache, id1, creds1)
                c2 == createdClient(cs1, cache1, id2, creds2)
                cs2 == clientsAfterCreate(cs1, cache1, id2, creds2)
                cache2 == cacheAfterCreate(cs1, cache1, id2, creds2)
            IN /\ (id1 = id2 /\ creds1 = creds2) =>
                    c2 = c1 /\ cs2 = cs1 /\ cache2 = cache1
               /\ id1 # id2 => c2 # c1 /\ cache2[CacheId(id1)] = Some(c1))
    /\ [][\A a \in Accounts :
            (/\ Len(sup') = Len(sup) + 1
             /\ sup'[Len(sup')].acct = a /\ sup'[Len(sup')].timer
             /\ clientCache[CacheId(a)] # None) =>
                /\ activeClients'[ClientKey(a)] = clientCache[CacheId(a)]
                /\ Len(clients') = Len(clients)
                /\ clientCache' = clientCache
         ]_vars

\* The account was started a second time and its registry entry is the one
\* client made at the first start, which is the cached one.
C24_Witness ==
    /\ Len(sup) = 2 /\ sup[2].timer /\ sup[1].promise # "rejected"
    /\ sup[1].acct = sup[2].acct
    /\ Len(clients) = 1
    /\ activeClients[ClientKey(sup[2].acct)] = Some(1)
    /\ clientCache[CacheId(sup[2].acct)] = Some(1)

\* C25: in every state, after clearClientCache for an account id the cached
\* client is not connected unless its disconnect threw, the id has no cache
\* entry whether disconnect took effect or threw and left the object as it
\* was, and the next createDingTalkClient for the id returns an object that
\* is none of the existing ones; and the step that starts a hard repair, the
\* caller of clearClientCache, leaves the client cached before closed and out
\* of the cache, with a new object cached.
C25_ClearEvictsAndDisconnects ==
    /\ [](\A a \in AccountIds : \A creds \in Credentials :
            LET id == CacheId(a)
                disconnected == clearClientCache(clients, clientCache, id)
                cache == cacheAfterClear(clientCache, id)
            IN /\ \A c \in clientCache[id] : disconnected[c].sock = "closed"
               /\ cache[id] = None
               /\ \A after \in {disconnected, clients} :
                    /\ createdClient(after, cache, a, creds) \notin 1..Len(clients)
                    /\ cacheAfterCreate(after, cache, a, creds)[id] # clientCache[id])
    /\ [][\A r \in RepairsStarted : r.hard =>
            LET id == CacheId(sup[r.sup].acct)
            IN /\ \A c \in clientCache[id] :
                    /\ clients'[c].sock = "closed"
                    /\ c \notin clientCache'[id]
                    /\ c # r.target
               /\ r.target \notin 1..Len(clients)
               /\ clientCache'[id] = Some(r.target)
         ]_vars

\* A hard repair is in flight: the client that was cached is closed and no
\* longer cached, and the cache holds the new one.
C25_Witness ==
    \E r \in repairs :
        /\ r.hard /\ r.target # r.client
        /\ clients[r.client].sock = "closed"
        /\ clientCache[CacheId(sup[r.sup].acct)] = Some(r.target)

\* The account has no registry entry and no timers: it was never started, or
\* it was stopped.
Stopped(a) ==
    /\ activeClients[ClientKey(a)] = None
    /\ healthCheckIntervals[ClientKey(a)] = None
    /\ cleanupIntervals[ClientKey(a)] = None

\* C26: stop can be called in every state, for every account id; it leaves
\* the account stopped, and for an account that is stopped already or was
\* never started it changes nothing.
C26_StopIdempotent ==
    /\ [](\A a \in AccountIds : ENABLED Stop(a))
    /\ [][\A a \in AccountIds : Stop(a) =>
            /\ Stopped(a)'
            /\ Stopped(a) => UNCHANGED <<sessionVars, inflight, dedupVars, webhookVars>>
         ]_vars

\* The account was started and stopped, and while it is stopped a repair that
\* began before the stop is still in flight and the cached client has
\* connected.
C26_Witness ==
    \E k \in 1..Len(sup) :
        /\ ~sup[k].timer /\ sup[k].promise = "pending"
        /\ Stopped(sup[k].acct)
        /\ \E r \in repairs : r.sup = k
        /\ \E c \in clientCache[CacheId(sup[k].acct)] : SocketIsOpen(c)

\* C27: a repair is hard exactly when it raises the counter above the soft
\* limit, so the first one past the limit is; the step that starts a hard
\* repair leaves the registered Session closed, and makes a new object, not
\* the registered one, that has the callback registered and is connecting;
\* and when the repair ends with the new object connected, the new object is
\* the account's registry entry.
C27_HardPathReplacesSession ==
    [][/\ \A r \in RepairsStarted :
            /\ r.hard <=> r.h_attempt > MAX_SOFT_RECONNECT_ATTEMPTS
            /\ r.hard =>
                 /\ activeClients[ClientKey(sup[r.sup].acct)] = Some(r.client)
                 /\ clients'[r.client].sock = "closed"
                 /\ r.target \notin 1..Len(clients) /\ r.target # r.client
                 /\ clients'[r.target].callback
                 /\ clients'[r.target].sock = "opening"
       /\ \A r \in RepairsEnded :
            (r.hard /\ r.pc = "wait" /\ SocketIsOpen(r.target)) =>
                 /\ activeClients'[ClientKey(sup[r.sup].acct)] = Some(r.target)
                 /\ clients'[r.target].sock = "open"
                 /\ clients'[r.target].callback
      ]_vars

\* The third repair in a row, the first hard one, has its new client
\* connected with the callback on it and is about to end, the registry
\* still holding the previous client, which is closed.
C27_Witness ==
    \E r \in repairs :
        /\ r.hard /\ r.h_attempt = MAX_SOFT_RECONNECT_ATTEMPTS + 1
        /\ sup[r.sup].timer
        /\ r.pc = "wait" /\ SocketIsOpen(r.target) /\ clients[r.target].callback
        /\ activeClients[ClientKey(sup[r.sup].acct)] = Some(r.client)
        /\ clients[r.client].sock = "closed"

\* C28 as stated: while a hard repair is in flight, and when it fails or
\* times out, the account's registry entry, which is what callbacks and
\* ticks look up, is no Session other than the one the repair found there.
C28_AsStated ==
    /\ [](\A r \in repairs : r.hard =>
            activeClients[ClientKey(sup[r.sup].acct)] \subseteq {r.client})
    /\ [][\A r \in RepairsEnded :
            (r.hard /\ ~(r.pc = "wait" /\ SocketIsOpen(r.target))) =>
                activeClients'[ClientKey(sup[r.sup].acct)] \subseteq {r.client}
         ]_vars

\* C30 as stated: a soft repair works on the registered Session itself, and
\* while it is in flight and when it has succeeded or failed the registry
\* entry, if the account has one, and the client cache refer to that same
\* Session, and the repair's steps create no client object.
C30_AsStated ==
    /\ [](\A r \in repairs : ~r.hard =>
            /\ r.target = r.client
            /\ activeClients[ClientKey(sup[r.sup].acct)] \subseteq {r.client}
            /\ clientCache[CacheId(sup[r.sup].acct)] = Some(r.client))
    /\ [][\A r \in RepairsStarted \cup RepairsEnded : ~r.hard =>
            /\ Len(clients') = Len(clients)
            /\ activeClients'[ClientKey(sup[r.sup].acct)] \subseteq {r.client}
            /\ clientCache'[CacheId(sup[r.sup].acct)] = Some(r.client)
         ]_vars

\* C36: every Session that is started or made by a hard repair has a
\* subscription list of its own, not the SDK's shared default, when the
\* inbound callback is registered; a registration changes the subscriptions
\* of no other Session; and the active Session carries exactly one callback
\* subscription for the inbound topic, after any number of hard repairs.
C36_FreshSubscriptions ==
    /\ [](\A c \in 1..Len(clients) :
            clients[c].callback =>
                /\ clients[c].subscriptions # None
                /\ CallbackSubscriptions(clients, c) = 1)
    /\ [](\A key \in ClientKeys : \A c \in activeClients[key] :
            clients[c].callback /\ clients[c].subscriptions = Some(1))
    /\ [][\A c \in 1..Len(clients) :
            CallbackSubscriptions(clients', c) # CallbackSubscriptions(clients, c) =>
                \E key \in ClientKeys :
                    activeClients[key] = None /\ activeClients'[key] = Some(c)]_vars

\* The third Session of the account, made by the second hard repair, is the
\* active one, and the two Sessions it replaced keep their subscriptions.
C36_Witness ==
    /\ Len(sup) = 1 /\ Len(clients) = 3 /\ repairs = {}
    /\ activeClients[ClientKey("main")] = Some(3) /\ SocketIsOpen(3)
    /\ \A c \in 1..3 : CallbackSubscriptions(clients, c) = 1

\* C37 as stated: from the teardown of an account, by stop or by abort,
\* until its next start the registry holds no Session for the account, and
\* no repair that was in flight at the teardown installs or leaves behind a
\* connected Session of the account.
C37_AsStated ==
    \A a \in Accounts :
        healthCheckIntervals[ClientKey(a)] = None =>
            /\ activeClients[ClientKey(a)] = None
            /\ \A c \in 1..Len(clients) : clients[c].acct = a => ~SocketIsOpen(c)

(***************************************************************************)
(* Properties of accounts side by side, checked under SpecAccounts         *)
(***************************************************************************)
\* What the process holds for one account: its registry entry, its cached
\* client, its timers, its supervisors, its client objects and its repairs.
AccountState(a) ==
    [session |-> activeClients[ClientKey(a)],
     cached |-> clientCache[CacheId(a)],
     healthCheck |-> healthCheckIntervals[ClientKey(a)],
     cleanup |-> cleanupIntervals[ClientKey(a)],
     supervisors |-> [k \in {j \in 1..Len(sup) : sup[j].acct = a} |-> sup[k]],
     objects |-> [c \in {d \in 1..Len(clients) : clients[d].acct = a} |-> clients[c]],
     repairing |-> {r \in repairs : sup[r.sup].acct = a}]

\* The step is a repair step, a stop with the account's key or an abort of
\* account b.
StepOfAccount(b) ==
    \/ Stop(ClientKey(b))
    \/ \E k \in 1..Len(sup) :
            sup[k].acct = b /\ (Abort(k) \/ AccountsTimerFires(k))
    \/ \E r \in repairs :
            /\ sup[r.sup].acct = b
            /\ \/ ConnectResolved(r) \/ ConnectRejected(r) \/ ConnectTimeout(r)
               \/ WaitConnected(r) \/ WaitTimeout(r)

OthersUnchanged(b) ==
    \A a \in AllAccountIds \ {b} : AccountState(a)' = AccountState(a)

RunningTimers(a) == {k \in 1..Len(sup) : sup[k].acct = a /\ sup[k].timer}

\* C38 as stated: across any sequence of starts, stops and aborts an
\* account has at most one running health-check timer and at most one
\* running cleanup timer, and every running timer is the one that
\* healthCheckIntervals and cleanupIntervals record for the account.
C38_AsStated ==
    \A a \in Accounts :
        /\ Cardinality(RunningTimers(a)) <= 1
        /\ RunningTimers(a) \subseteq healthCheckIntervals[ClientKey(a)]
        /\ RunningTimers(a) \subseteq cleanupIntervals[ClientKey(a)]

(***************************************************************************)
(* Properties of the inbound callback, checked under SpecEvents            *)
(***************************************************************************)
\* The handler is invoked in this step for an event with the id m.
HandlerInvoked(m) == \E i \in inflight' \ inflight : i.msgId = m

\* The callback returns in this step, without having invoked the handler,
\* for an event with the id m.
Skipped(m) == \E d \in lastDone' : d.msgId = m /\ ~d.handled

\* The id m was last sighted less than TTL ago.
SightedWithinTtl(m) ==
    h_sighted[m] # None /\ Now - The(h_sighted[m]) < DEDUP_TTL_MS

SuccessAcks(acks) == Len(acks) = 1 /\ acks[1].success

C2_AsStated == \A d \in lastDone : Len(d.acks) = 1

Replaced(a) ==
    {c \in 1..Len(clients) :
        clients[c].acct = a /\ \E cur \in activeClients[ClientKey(a)] : c < cur}

\* C29: in every step of the callback, nothing of the sessions, the registry
\* included, changes; an invocation that starts holds the Session the
\* registry maps the account to at that moment, which is none of the
\* replaced ones; and every acknowledgment goes through the Session the
\* invocation holds: the one it took when it started, for an event the
\* handler has had, and the registered one for an event acknowledged at
\* once.
C29_CallbackUsesRegistryEntry ==
    [][(inflight' # inflight \/ lastDone' # None) =>
          /\ UNCHANGED sessionVars
          /\ \A i \in inflight' \ inflight :
               /\ Some(i.client) = activeClients[ClientKey(clients[i.client].acct)]
               /\ i.client \notin Replaced(clients[i.client].acct)
          /\ \A d \in lastDone' : \A n \in 1..Len(d.acks) :
               IF d.handled
               THEN \E i \in inflight \ inflight' : d.acks[n].via = i.client
               ELSE \E a \in Accounts :
                      Some(d.acks[n].via) = activeClients[ClientKey(a)]
      ]_vars

\* A hard repair has replaced the first Session by the second, and an
\* invocation that started after the swap holds the second.
C29_Witness ==
    \E i \in inflight :
        /\ Some(i.client) = activeClients[ClientKey(clients[i.client].acct)]
        /\ Replaced(clients[i.client].acct) # {}
        /\ clients[i.client].sock = "open"

HandlerInvokedVia(a, m) ==
    \E i \in inflight' \ inflight : i.msgId = m /\ clients[i.client].acct = a

\* The acknowledgments a callback can send through the registry: one, of
\* the given outcome, through the Session of some account.
RegistryAcks(success) ==
    {<<Ack(c, success)>> : c \in UNION {activeClients[key] : key \in ClientKeys}}

Running(a) == healthCheckIntervals[ClientKey(a)] # None

\* The registry's Session is connected and the supervisor counts no attempt.
Recovered(a) ==
    /\ Running(a)
    /\ \E c \in activeClients[ClientKey(a)] : Connected(c)
    /\ \A k \in healthCheckIntervals[ClientKey(a)] : sup[k].reconnectAttempts = 0

\* The model constructs no further Session.
ClientsExhausted == Len(clients) >= MaxClients

\* The health check of a supervisor ends, and its promise settles, only in a
\* step that removes the account from the registry (stop or abort).
EndsOnlyByTeardown ==
    \A k \in 1..Len(sup) :
        (sup[k].timer /\ ~sup'[k].timer) \/ sup'[k].promise # sup[k].promise
            => /\ activeClients'[ClientKey(sup[k].acct)] = None
               /\ healthCheckIntervals'[ClientKey(sup[k].acct)] = None
               /\ repairs' = repairs

Repairing(k) == \E r \in repairs : r.sup = k

\* C31: every repair in flight comes to an end (unless the model runs out of
\* Sessions); a repair that ends by a timeout of connect or of the wait for
\* connected has failed: it is over, the registry is as it was and a running
\* supervisor has restarted its backoff; whichever way a repair ends, the
\* supervisor's reconnecting guard is released by that step, and in every
\* state the guard is set only while the supervisor's repair is in flight.
C31_RepairsTerminate ==
    /\ \A k \in 1..MaxStarts : Repairing(k) ~> (~Repairing(k) \/ ClientsExhausted)
    /\ [](\A k \in 1..Len(sup) : sup[k].reconnecting => Repairing(k))
    /\ [][\A r \in repairs :
            /\ (ConnectTimeout(r) \/ WaitTimeout(r)) =>
                 /\ r \in RepairsEnded
                 /\ activeClients' = activeClients
                 /\ sup[r.sup].timer => sup'[r.sup].disconnectedSince = Some(Now)
            /\ r \in RepairsEnded => ~sup'[r.sup].reconnecting
         ]_vars

\* A repair has waited for connected for as long as waitForConnected allows
\* and its Session is still not connected: the wait is about to time out.
C31_Witness ==
    \E r \in repairs :
        /\ r.pc = "wait" /\ ~SocketIsOpen(r.target)
        /\ Now - r.awaitStart > WAIT_FOR_CONNECTED_TIMEOUT
        /\ sup[r.sup].timer /\ sup[r.sup].reconnecting

====
